---- MODULE Spec2Model ----
(***************************************************************************)
(* Model of the financial-document RAG pipeline of knowledge_base_chatbot: *)
(*   - FinanceRAGService.processDocument and its modern / legacy paths     *)
(*     (src/src/services/financeRagService.ts),                            *)
(*   - ModernRagService chunking, embedding and search                     *)
(*     (src/src/services/pdfService.ts, second half of the file),          *)
(*   - SupabaseService.storeChunks / searchChunks and                      *)
(*     DocumentProcessor.uploadAndProcess                                  *)
(*     (src/src/services/supabaseService.ts).                              *)
(* External collaborators (OpenAI embeddings and chat completion, the      *)
(* Supabase table and RPC, the langchain text splitters) are environment   *)
(* choices: every await on one of them is one action whose outcome is      *)
(* drawn with \E.                                                          *)
(***************************************************************************)
EXTENDS Integers, Sequences, FiniteSets, TLC

VARIABLES
    useSupabase,         \* FinanceRAGService.useSupabase = SupabaseService.isEnabled
    dbChunks,            \* rows of table financial_document_chunks, in insertion order
    globalChunkStorage,  \* the in-memory chunk list of financeRagService.ts
    req,                 \* one record per processDocument call
    sr,                  \* outcome of the latest ModernRagService.search call
    fCands,              \* adaptive filter study: the fixed candidate list
    fPrev,               \* adaptive filter study: the run before the latest
    fCur,                \* adaptive filter study: the latest run
    fn,                  \* function study: the latest call of a pure function
    up                   \* one DocumentProcessor.uploadAndProcess call

vars == <<useSupabase, dbChunks, globalChunkStorage, req, sr, fCands, fPrev, fCur, fn, up>>

pipelineVars == <<useSupabase, dbChunks, globalChunkStorage, req, sr>>
filterVars == <<fCands, fPrev, fCur>>
studyVars == <<fCands, fPrev, fCur, fn, up>>

(***************************************************************************)
(* Bounds and program constants                                            *)
(***************************************************************************)
MaxDocs == 2           \* distinct documentIds
MaxCands == 3          \* longest generated candidate list of the filter study

EmbeddingDim == 1536   \* OpenAIEmbeddings({ dimensions: 1536 })
DefaultMaxResults == 5 \* maxResults: finalMaxResults = 5
OverFetchFactor == 4   \* initialMaxResultsToFetch = finalMaxResults * 4
SimScale == 100        \* similarities are held in hundredths
BetaDen == 20          \* strictness values are held in twentieths (0.05 = 1/20)
InitialRpcThreshold == 1  \* initialRpcThreshold = 0.01, in hundredths
BetaCap == 1           \* Math.min(query.similarityThreshold, 0.05), in twentieths

Reqs == {1, 2}         \* two processDocument calls, running concurrently
Docs == 1..MaxDocs

NoId == <<0, 0>>       \* parentId / parentChunkId undefined
NoEmbedding == 0       \* embedding undefined
NoBeta == -1           \* similarityThreshold undefined

(***************************************************************************)
(* Documents.  The text of a document is represented by what the structure *)
(* detector and the two langchain splitters make of it: a sequence of      *)
(* sections, each with its detected type and, for every parent document    *)
(* the parent splitter returns, the number of child documents the child    *)
(* splitter returns for it.                                                *)
(***************************************************************************)
Section(t, ps) == [type |-> t, parents |-> ps]

Shapes ==
    { <<>>,
      << Section("narrative", <<1>>) >>,
      << Section("transcript", <<3, 2>>) >>,
      << Section("narrative", <<1>>), Section("financial_metrics", <<2>>) >> }

(***************************************************************************)
(* Structured records as extractFinancialData can return them, reduced to  *)
(* the fields createFinancialHierarchicalChunks branches on.               *)
(***************************************************************************)
Structured(inc, bal, cash, met, nh) ==
    [incomeStatement |-> inc, balanceSheet |-> bal, cashFlowStatement |-> cash,
     financialMetrics |-> met, keyHighlights |-> nh]

StructuredSamples ==
    { Structured(FALSE, FALSE, FALSE, FALSE, 0),
      Structured(FALSE, FALSE, FALSE, TRUE, 3),
      Structured(TRUE, TRUE, TRUE, TRUE, 2) }

(***************************************************************************)
(* ModernRagService: hierarchical chunking (pdfService.ts 208-401, 465-476) *)
(***************************************************************************)
ModernChunk(id, parentId, level, type, position, documentId) ==
    [id |-> id, parentId |-> parentId, level |-> level, embedding |-> NoEmbedding,
     chunkType |-> type, position |-> position, documentId |-> documentId]

\* createHierarchicalChunks: for every parent document, the parent chunk
\* (position i) followed by its child chunks (position j, parentId the parent's
\* freshly generated id).  uuidv4() values are <<r, k>>, k counting the ids the
\* call r has generated.
RECURSIVE ParentLoop(_, _, _, _, _)
ParentLoop(section, i, documentId, r, k) ==
    IF i > Len(section.parents) THEN <<>>
    ELSE LET parentId == <<r, k + 1>>
             parentChunk == ModernChunk(parentId, NoId, "parent", section.type,
                                        i - 1, documentId)
             childChunks == [j \in 1..section.parents[i] |->
                               ModernChunk(<<r, k + 1 + j>>, parentId, "child",
                                           section.type, j - 1, documentId)]
         IN  <<parentChunk>> \o childChunks
               \o ParentLoop(section, i + 1, documentId, r,
                             k + 1 + section.parents[i])

createHierarchicalChunks(section, documentId, r, k) ==
    ParentLoop(section, 1, documentId, r, k)

\* processDocument step 2: allChunks.push(...sectionChunks) for every section.
RECURSIVE SectionLoop(_, _, _, _, _)
SectionLoop(sections, s, documentId, r, k) ==
    IF s > Len(sections) THEN <<>>
    ELSE LET sectionChunks == createHierarchicalChunks(sections[s], documentId, r, k)
         IN  sectionChunks
               \o SectionLoop(sections, s + 1, documentId, r, k + Len(sectionChunks))

\* generateEmbeddings: chunks[i].embedding = embeddings[i].
generateEmbeddings_Skip(chunks, embeddings) == chunks

generateEmbeddings(chunks, embeddings) ==
    [i \in 1..Len(chunks) |-> [chunks[i] EXCEPT !.embedding = embeddings[i]]]

\* generateEmbeddings: contents = chunks.map(chunk => chunk.content), the texts
\* handed to embedDocuments.  A text is the chunk whose content it starts with
\* and the labels of the tags joined to it.
EmbeddingContents(chunks) ==
    [i \in 1..Len(chunks) |-> [content |-> chunks[i].id, tags |-> <<>>]]

\* embedDocuments on success: one vector of the configured dimension per text.
embedDocuments(contents) == [i \in 1..Len(contents) |-> EmbeddingDim]

\* ModernRagService.processDocument when embedDocuments succeeds.
ModernProcessDocument(sections, documentId, r) ==
    LET allChunks == SectionLoop(sections, 1, documentId, r, 0)
    IN  generateEmbeddings(allChunks, embedDocuments(allChunks))

(***************************************************************************)
(* FinanceRAGService: conversion and legacy chunking                       *)
(* (financeRagService.ts 264-280, 716-853)                                 *)
(***************************************************************************)
LegacyChunk(id, documentId, parentChunkId, level, order, type, embedding) ==
    [id |-> id, documentId |-> documentId, parentChunkId |-> parentChunkId,
     chunkLevel |-> level, chunkOrder |-> order, chunkType |-> type,
     embedding |-> embedding]

convertModernToLegacyChunks_Unscoped(modernChunks) ==
    [i \in 1..Len(modernChunks) |->
        LET m == modernChunks[i]
        IN  LegacyChunk(m.id, 0, m.parentId,
                        IF m.level = "parent" THEN 1 ELSE 2,
                        m.position, m.chunkType, m.embedding)]

convertModernToLegacyChunks(modernChunks) ==
    [i \in 1..Len(modernChunks) |->
        LET m == modernChunks[i]
        IN  LegacyChunk(m.id, m.documentId, m.parentId,
                        IF m.level = "parent" THEN 1 ELSE 2,
                        m.position, m.chunkType, m.embedding)]

\* The chunk types createFinancialHierarchicalChunks emits, in order.
LegacyChunkTypes(sd) ==
    <<"executive_summary">>
      \o (IF sd.incomeStatement THEN <<"income_statement">> ELSE <<>>)
      \o (IF sd.balanceSheet THEN <<"balance_sheet">> ELSE <<>>)
      \o (IF sd.cashFlowStatement THEN <<"cash_flow">> ELSE <<>>)
      \o (IF sd.financialMetrics THEN <<"key_metrics">> ELSE <<>>)
      \o [i \in 1..sd.keyHighlights |-> "highlight"]

LegacyChunkLevel(type) ==
    CASE type = "executive_summary" -> 1
      [] type = "highlight" -> 3
      [] OTHER -> 2

\* createFinancialHierarchicalChunks: no chunk carries a parentChunkId (the
\* assignments are commented out in the source); chunkOrder = chunkOrder++.
createFinancialHierarchicalChunks(documentId, sd, r, k) ==
    LET types == LegacyChunkTypes(sd)
    IN  [i \in 1..Len(types) |->
            LegacyChunk(<<r, k + i>>, documentId, NoId, LegacyChunkLevel(types[i]),
                        i - 1, types[i], NoEmbedding)]

\* The chunk types createFinancialHierarchicalChunks gives a metrics list.
HasMetrics(type) ==
    type \in {"income_statement", "balance_sheet", "cash_flow", "key_metrics"}

\* createFinancialEmbeddingText: [content, tags...].join(' | ') for a chunk of
\* createFinancialHierarchicalChunks.  sectionType is set on every such chunk;
\* the structured samples carry no companyInfo and no reportInfo, so the
\* Company, Report Type and Period tags are absent.
createFinancialEmbeddingText(chunk) ==
    [content |-> chunk.id,
     tags |-> (IF HasMetrics(chunk.chunkType) THEN <<"Metrics">> ELSE <<>>)
                \o <<"Section">>]

\* processFinancialDocument step 3 on success: { ...chunk, embedding }.
WithEmbeddings(chunks) ==
    [i \in 1..Len(chunks) |-> [chunks[i] EXCEPT !.embedding = EmbeddingDim]]

(***************************************************************************)
(* SupabaseService.storeChunks (supabaseService.ts 695-779)                *)
(***************************************************************************)
IsChild(chunk) == chunk.parentChunkId # NoId

ParentBatch_ChildrenFirst(chunks) == SelectSeq(chunks, LAMBDA c : IsChild(c))

\* parentDbChunks: the chunks without parentChunkId, in input order.
ParentBatch(chunks) == SelectSeq(chunks, LAMBDA c : ~IsChild(c))

\* childDbChunks: the chunks with a parentChunkId, in input order.
ChildBatch(chunks) == SelectSeq(chunks, LAMBDA c : IsChild(c))

(***************************************************************************)
(* processDocument calls                                                   *)
(***************************************************************************)
IdleReq ==
    [pc |-> "idle", doc |-> 0, shape |-> <<>>, path |-> "none",
     legacyChunks |-> <<>>,          \* processWithModernRAG: converted modern chunks
     chunks |-> <<>>,                \* processFinancialDocument: chunks, then chunksWithEmbeddings
     uuids |-> 0,                    \* ids generated by this call
     batchLog |-> <<>>,              \* insert batches this call attempted: <<path, kind, ok>>
     scReturns |-> <<>>,             \* how its storeChunks calls ended: <<path, "ok" | "threw">>
     embedFailed |-> FALSE,          \* an embedding call of this call failed
     embedTexts |-> <<>>,            \* the texts this call sent to the embedding interface
     result |-> "none",              \* "ok": resolved with returned; "failed": rejected
     returned |-> <<>>]

\* The chunk list the running storeChunks call was given.
Storing(q) == IF q.path = "modern" THEN q.legacyChunks ELSE q.chunks

AfterStoreThrows_Swallow(q) ==
    [q EXCEPT !.pc = "profile", !.scReturns = Append(@, <<q.path, "ok">>)]

AfterStoreThrows_Continue(q) ==
    IF q.pc = "sc_parents" /\ ChildBatch(Storing(q)) # <<>>
    THEN [q EXCEPT !.pc = "sc_children"]
    ELSE IF q.path = "modern"
    THEN [q EXCEPT !.pc = "legacy_extract", !.scReturns = Append(@, <<q.path, "threw">>)]
    ELSE [q EXCEPT !.pc = "failed", !.scReturns = Append(@, <<q.path, "threw">>),
                   !.result = "failed"]

\* Where a call continues when storeChunks throws: processWithModernRAG catches
\* and falls back to processFinancialDocument, whose own catch rethrows.
AfterStoreThrows(q) ==
    IF q.path = "modern"
    THEN [q EXCEPT !.pc = "legacy_extract", !.scReturns = Append(@, <<q.path, "threw">>)]
    ELSE [q EXCEPT !.pc = "failed", !.scReturns = Append(@, <<q.path, "threw">>),
                   !.result = "failed"]

\* Where a call continues when storeChunks returns: the profile step.
AfterStoreReturns(q) ==
    [q EXCEPT !.pc = "profile", !.scReturns = Append(@, <<q.path, "ok">>)]

\* storeChunks up to its first await: the parent insert when there are parent
\* rows, else the child insert when there are child rows, else it returns.
EnterStoreChunks(q) ==
    LET chunks == Storing(q)
    IN  IF ParentBatch(chunks) # <<>> THEN [q EXCEPT !.pc = "sc_parents"]
        ELSE IF ChildBatch(chunks) # <<>> THEN [q EXCEPT !.pc = "sc_children"]
        ELSE AfterStoreReturns(q)

\* FinanceRAGService.processDocument up to the call of processWithModernRAG.
\* The upsert into processed_documents changes no chunk and its error is
\* caught and logged, so both outcomes continue alike.
ProcessDocument(r, d, shape) ==
    /\ req[r].pc = "idle"
    /\ \A p \in Reqs : p < r => req[p].pc # "idle"
    /\ req' = [req EXCEPT ![r] = [@ EXCEPT !.pc = "modern", !.doc = d,
                                           !.shape = shape, !.path = "modern"]]
    /\ UNCHANGED <<useSupabase, dbChunks, globalChunkStorage, sr, studyVars>>

\* processWithModernRAG: modernRagService.processDocument resolves, the chunks
\* are converted and handed to storeFinancialChunks (or pushed to memory).
ModernEmbedOk(r) ==
    /\ req[r].pc = "modern"
    /\ LET q == req[r]
           modernChunks == ModernProcessDocument(q.shape, q.doc, r)
           legacyChunks == convertModernToLegacyChunks(modernChunks)
           q1 == [q EXCEPT !.legacyChunks = legacyChunks, !.uuids = Len(modernChunks),
                           !.embedTexts = EmbeddingContents(modernChunks)]
       IN  IF useSupabase
           THEN /\ req' = [req EXCEPT ![r] = EnterStoreChunks(q1)]
                /\ UNCHANGED globalChunkStorage
           ELSE /\ globalChunkStorage' = globalChunkStorage \o legacyChunks
                /\ req' = [req EXCEPT ![r] = [q1 EXCEPT !.pc = "profile"]]
    /\ UNCHANGED <<useSupabase, dbChunks, sr, studyVars>>

\* processWithModernRAG: embedDocuments rejects; the catch block falls back to
\* processFinancialDocument, which first awaits extractFinancialData.
ModernEmbedFails(r) ==
    /\ req[r].pc = "modern"
    /\ LET q == req[r]
           allChunks == SectionLoop(q.shape, 1, q.doc, r, 0)
       IN  req' = [req EXCEPT ![r] = [q EXCEPT !.pc = "legacy_extract",
                                                !.uuids = Len(allChunks),
                                                !.embedFailed = TRUE,
                                                !.embedTexts = EmbeddingContents(allChunks)]]
    /\ UNCHANGED <<useSupabase, dbChunks, globalChunkStorage, sr, studyVars>>

\* storeChunks: the insert of parentDbChunks returns.
InsertParentChunks(r, ok) ==
    /\ req[r].pc = "sc_parents"
    /\ LET q == req[r]
           chunks == Storing(q)
           q1 == [q EXCEPT !.batchLog = Append(@, <<q.path, "parents", ok>>)]
       IN  IF ok
           THEN /\ dbChunks' = dbChunks \o ParentBatch(chunks)
                /\ req' = [req EXCEPT ![r] =
                             IF ChildBatch(chunks) # <<>>
                             THEN [q1 EXCEPT !.pc = "sc_children"]
                             ELSE AfterStoreReturns(q1)]
           ELSE /\ dbChunks' = dbChunks
                /\ req' = [req EXCEPT ![r] = AfterStoreThrows(q1)]
    /\ UNCHANGED <<useSupabase, globalChunkStorage, sr, studyVars>>

\* storeChunks: the insert of childDbChunks returns.
InsertChildChunks(r, ok) ==
    /\ req[r].pc = "sc_children"
    /\ LET q == req[r]
           chunks == Storing(q)
           q1 == [q EXCEPT !.batchLog = Append(@, <<q.path, "children", ok>>)]
       IN  IF ok
           THEN /\ dbChunks' = dbChunks \o ChildBatch(chunks)
                /\ req' = [req EXCEPT ![r] = AfterStoreReturns(q1)]
           ELSE /\ dbChunks' = dbChunks
                /\ req' = [req EXCEPT ![r] = AfterStoreThrows(q1)]
    /\ UNCHANGED <<useSupabase, globalChunkStorage, sr, studyVars>>

\* createFinancialProfileFromContent / createFinancialProfile: neither throws
\* (extractFinancialData and createFinancialProfile catch every error) and
\* neither touches a chunk; the call then returns its chunk list.
CreateProfile(r) ==
    /\ req[r].pc = "profile"
    /\ req' = [req EXCEPT ![r] = [@ EXCEPT !.pc = "done", !.result = "ok",
                                           !.returned = Storing(req[r])]]
    /\ UNCHANGED <<useSupabase, dbChunks, globalChunkStorage, sr, studyVars>>

\* processFinancialDocument: extractFinancialData returns a structured record
\* (parsed or fallback) and createFinancialHierarchicalChunks builds the chunks.
LegacyExtract(r, sd) ==
    /\ req[r].pc = "legacy_extract"
    /\ LET q == req[r]
           chunks == createFinancialHierarchicalChunks(q.doc, sd, r, q.uuids)
       IN  req' = [req EXCEPT ![r] = [q EXCEPT !.pc = "legacy_embed", !.path = "legacy",
                                                !.chunks = chunks,
                                                !.uuids = @ + Len(chunks)]]
    /\ UNCHANGED <<useSupabase, dbChunks, globalChunkStorage, sr, studyVars>>

\* processFinancialDocument: Promise.all over generateEmbedding resolves and
\* storeFinancialChunks is called.
LegacyEmbedOk(r) ==
    /\ req[r].pc = "legacy_embed"
    /\ LET q == req[r]
           q1 == [q EXCEPT !.chunks = WithEmbeddings(q.chunks),
                           !.embedTexts = @ \o [i \in 1..Len(q.chunks) |->
                                                   createFinancialEmbeddingText(q.chunks[i])]]
       IN  IF useSupabase
           THEN /\ req' = [req EXCEPT ![r] = EnterStoreChunks(q1)]
                /\ UNCHANGED globalChunkStorage
           ELSE /\ globalChunkStorage' = globalChunkStorage \o q1.chunks
                /\ req' = [req EXCEPT ![r] = [q1 EXCEPT !.pc = "profile"]]
    /\ UNCHANGED <<useSupabase, dbChunks, sr, studyVars>>

\* processFinancialDocument: a generateEmbedding call rejects; the catch block
\* throws 'Failed to process financial document' and processDocument rejects.
LegacyEmbedFails(r) ==
    /\ req[r].pc = "legacy_embed"
    /\ req' = [req EXCEPT ![r] =
                  [@ EXCEPT !.pc = "failed", !.result = "failed", !.embedFailed = TRUE,
                            !.embedTexts = @ \o [i \in 1..Len(req[r].chunks) |->
                                                    createFinancialEmbeddingText(req[r].chunks[i])]]]
    /\ UNCHANGED <<useSupabase, dbChunks, globalChunkStorage, sr, studyVars>>

(***************************************************************************)
(* Adaptive retrieval filter (pdfService.ts 541-586).  Similarities are    *)
(* integers in hundredths, alpha in hundredths, beta in twentieths; the    *)
(* comparisons are the source's, cleared of denominators and of the square *)
(* root, so they are exact.                                                *)
(***************************************************************************)
Alpha == 50            \* relativeCutoff = bestSimilarity * 0.5
AlphaDen == 100

\* Array.prototype.sort((a, b) => b.similarity - a.similarity): stable,
\* descending by similarity.
RECURSIVE InsertDesc(_, _)
InsertDesc(x, s) ==
    IF s = <<>> THEN <<x>>
    ELSE IF x.similarity >= Head(s).similarity THEN <<x>> \o s
    ELSE <<Head(s)>> \o InsertDesc(x, Tail(s))

SortDesc_Unsorted(s) == s

RECURSIVE SortDesc(_)
SortDesc(s) == IF s = <<>> THEN <<>> ELSE InsertDesc(Head(s), SortDesc(Tail(s)))

RECURSIVE SumSim(_)
SumSim(s) == IF s = <<>> THEN 0 ELSE Head(s).similarity + SumSim(Tail(s))

\* n * (similarity - mean) for the list `among` of n results.
Dev(x, among) == Len(among) * x.similarity - SumSim(among)

RECURSIVE SumSqDev(_, _)
SumSqDev(s, among) ==
    IF s = <<>> THEN 0
    ELSE Dev(Head(s), among) * Dev(Head(s), among) + SumSqDev(Tail(s), among)

\* relativeCutoff = bestSimilarity * alpha, in units of 1 / (SimScale * AlphaDen),
\* on a sorted non-empty list; the source fixes alpha = 0.5.
RelativeCutoff(results, alpha) == results[1].similarity * alpha

RelativeCutoffFilter_Strict(results, alpha) ==
    SelectSeq(results, LAMBDA x : x.similarity * AlphaDen > RelativeCutoff(results, alpha))

\* supabaseResults.filter(r => r.similarity >= relativeCutoff).
RelativeCutoffFilter(results, alpha) ==
    SelectSeq(results, LAMBDA x : x.similarity * AlphaDen >= RelativeCutoff(results, alpha))

AboveDynamicThreshold_Strict(x, sims, beta) ==
    LET n == Len(sims)
        d == Dev(x, sims)
    IN  /\ d > 0
        /\ n > 1 => d * d * BetaDen * BetaDen * (n - 1) >= beta * beta * SumSqDev(sims, sims)

AboveDynamicThreshold_Minus(x, sims, beta) ==
    LET n == Len(sims)
        d == Dev(x, sims)
    IN  \/ d >= 0
        \/ n > 1 /\ d * d * BetaDen * BetaDen * (n - 1) <= beta * beta * SumSqDev(sims, sims)

\* r.similarity >= mean + beta * stdev with stdev the sample deviation
\* (0 for a single item): with d = n * (r.similarity - mean) this is
\* d >= 0 and d^2 * BetaDen^2 * (n - 1) >= beta^2 * sum of d_i^2.
AboveDynamicThreshold(x, sims, beta) ==
    LET n == Len(sims)
        d == Dev(x, sims)
    IN  /\ d >= 0
        /\ n > 1 => d * d * BetaDen * BetaDen * (n - 1) >= beta * beta * SumSqDev(sims, sims)

StatisticalFilter(results, beta) ==
    SelectSeq(results, LAMBDA x : AboveDynamicThreshold(x, results, beta))

Take_All(s, n) == s

\* Array.prototype.slice(0, n) for n >= 0.
Take(s, n) == SubSeq(s, 1, IF n < Len(s) THEN n ELSE Len(s))

EmptyFetch_Filtered == [results |-> <<>>, filtered |-> <<>>, stages |-> {"relative"}]

\* What search returns when the initial fetch is empty.
EmptyFetch == [results |-> <<>>, filtered |-> <<>>, stages |-> {}]

\* The filter stages of search on the fetched rows, for a relative-cutoff factor
\* alpha, an optional strictness beta and the final result count.
AdaptiveFilter(supabaseResults, alpha, beta, finalMaxResults) ==
    LET sorted == SortDesc(supabaseResults)
    IN  IF Len(sorted) = 0 THEN EmptyFetch
        ELSE LET relative == RelativeCutoffFilter(sorted, alpha)
                 statistical == beta # NoBeta /\ Len(relative) > 0
                 filtered == IF statistical THEN StatisticalFilter(relative, beta)
                             ELSE relative
             IN  [results |-> Take(filtered, finalMaxResults),
                  filtered |-> filtered,
                  stages |-> {"relative"} \cup (IF statistical THEN {"statistical"} ELSE {})]

(***************************************************************************)
(* Query rewriting (pdfService.ts 122-134, financeRagService.ts 130-144)   *)
(***************************************************************************)
\* docMeta of rewriteQueryForEmbedding; "" stands for an absent field.
DocMeta(company, period, documentId) ==
    [company |-> company, period |-> period, documentId |-> documentId]

NoMeta == DocMeta("", "", "")

GenericFraming == "Regarding the uploaded financial documents, "

\* const base = ... of ModernRagService's rewriteQueryForEmbedding.
FramingPrefix(docMeta) ==
    LET docId == IF docMeta.documentId # "" THEN docMeta.documentId ELSE "unknown"
    IN  IF docMeta.company # "" /\ docMeta.period # ""
        THEN "About " \o docMeta.company \o " " \o docMeta.period
               \o " filing (doc id: " \o docId \o "), "
        ELSE IF docMeta.company # ""
        THEN "About " \o docMeta.company \o " (doc id: " \o docId \o "), "
        ELSE GenericFraming

ShortQueryLength == 20

rewriteQueryForEmbedding_Always(query, docMeta) ==
    FramingPrefix(docMeta) \o "answer this: " \o query

\* rewriteQueryForEmbedding of pdfService.ts.
rewriteQueryForEmbedding(query, docMeta) ==
    IF Len(query) < ShortQueryLength /\ Len(query) > 0
    THEN FramingPrefix(docMeta) \o "answer this: " \o query
    ELSE FramingPrefix(docMeta) \o query

UpperCase == "ABCDEFGHIJKLMNOPQRSTUVWXYZ"
LowerCase == "abcdefghijklmnopqrstuvwxyz"

\* String.prototype.toLowerCase on ASCII text.
RECURSIVE toLowerCase(_)
toLowerCase(s) ==
    IF Len(s) = 0 THEN ""
    ELSE LET c == SubSeq(s, 1, 1)
             upper == {i \in 1..Len(UpperCase) : SubSeq(UpperCase, i, i) = c}
         IN  (IF upper = {} THEN c
              ELSE LET i == CHOOSE i \in upper : TRUE IN SubSeq(LowerCase, i, i))
               \o toLowerCase(SubSeq(s, 2, Len(s)))

startsWith(s, k) == Len(s) >= Len(k) /\ SubSeq(s, 1, Len(k)) = k
endsWith(s, k) == Len(s) >= Len(k) /\ SubSeq(s, Len(s) - Len(k) + 1, Len(s)) = k

questionKeywords ==
    {"what", "who", "when", "where", "why", "how", "is", "are", "do", "does", "can",
     "could", "summarize"}

LegacyFraming ==
    "Regarding the uploaded financial documents (like earnings call transcripts or 10-K filings), "

\* rewriteQueryForEmbedding of financeRagService.ts, used by the legacy search.
legacyRewriteQueryForEmbedding(query) ==
    IF Len(query) < ShortQueryLength /\ Len(query) > 0
    THEN LET isQuestion ==
                \/ \E k \in questionKeywords : startsWith(toLowerCase(query), k)
                \/ endsWith(query, "?")
         IN  IF isQuestion THEN LegacyFraming \o "answer this question: " \o query
             ELSE LegacyFraming \o "provide information about: " \o query
    ELSE query

(***************************************************************************)
(* Search (supabaseService.ts 937-1091, pdfService.ts 481-644,             *)
(* financeRagService.ts 285-320, 1081-1185)                                *)
(***************************************************************************)
NoMax == 0             \* maxResults undefined
NoFilter == 0          \* filters.companies undefined
Queries == {0, 1}
SimTable == <<82, 0, 81, 40>>

\* The text of the caller's query.
QueryText(q) == IF q = 0 THEN "Net loss?" ELSE "what was the revenue of the quarter"

\* metadata.companyName a document was processed with: one company per document.
CompanyOf(d) == d

\* docProfileMeta of search: what getMinimalProfileForDocument resolves for the
\* documentId option; no documentId, a null profile and a failed lookup all
\* leave it undefined.
ProfileMeta(documentId) ==
    IF documentId = "d1" THEN DocMeta("Acme", "Q3 2024", documentId) ELSE NoMeta

\* The outcomes of the two awaited calls of a search: the query embedding and,
\* when that succeeded, the RPC.
CallOutcomes == {<<TRUE, "ok">>, <<TRUE, "error">>, <<FALSE, "none">>}

\* Cosine similarity of a stored row to the embedding of query q, as the
\* match_document_chunks_with_parents RPC computes it: a fixed function of the
\* query and of the row.
Sim(q, row) == SimTable[((q + row.chunkOrder + row.chunkLevel) % Len(SimTable)) + 1]

\* The RPC: rows at or above p_match_threshold (and of p_company_name when it
\* is given), ORDER BY similarity DESC, LIMIT p_match_count.
RpcMatch(q, threshold, count, companyFilter) ==
    LET scored == [i \in 1..Len(dbChunks) |->
                     [chunkId |-> dbChunks[i].id, documentId |-> dbChunks[i].documentId,
                      companyName |-> CompanyOf(dbChunks[i].documentId),
                      similarity |-> Sim(q, dbChunks[i]),
                      parent_id |-> dbChunks[i].parentChunkId]]
        matching == SelectSeq(scored, LAMBDA x :
                        /\ x.similarity >= threshold
                        /\ companyFilter # NoFilter => x.companyName = companyFilter)
    IN  Take(SortDesc(matching), count)

\* searchChunks never throws: it returns [] when the service is disabled, when
\* the RPC reports an error (thrown and caught inside) and when data is null.
searchChunks(q, threshold, count, companyFilter, rpc) ==
    IF ~useSupabase THEN <<>>
    ELSE IF rpc # "ok" THEN <<>>
    ELSE RpcMatch(q, threshold, count, companyFilter)

SearchCatch_Rethrow ==
    [status |-> "threw", results |-> <<>>, stages |-> {}, candidates |-> 0,
     fetched |-> <<>>, filtered |-> <<>>]

\* The catch block of ModernRagService.search: return [].
SearchCatch ==
    [status |-> "returned", results |-> <<>>, stages |-> {}, candidates |-> 0,
     fetched |-> <<>>, filtered |-> <<>>]

EmbeddedText_Twice(q, docMeta) ==
    rewriteQueryForEmbedding(rewriteQueryForEmbedding(QueryText(q), docMeta), docMeta)

\* The text ModernRagService.search hands to embedQuery.
EmbeddedText(q, docMeta) == rewriteQueryForEmbedding(QueryText(q), docMeta)

\* The text _performAdvancedVectorSearch hands to generateEmbedding.
LegacyEmbeddedText(q) == legacyRewriteQueryForEmbedding(QueryText(q))

\* ModernRagService.search(query, { maxResults, similarityThreshold, documentId }):
\* no filter of the caller reaches searchChunks.
ModernSearch(q, maxResults, beta, docMeta, embedOk, rpc) ==
    LET finalMaxResults == IF maxResults = NoMax THEN DefaultMaxResults ELSE maxResults
        embedded == EmbeddedText(q, docMeta)
    IN  IF ~embedOk THEN SearchCatch @@ [embedded |-> embedded]
        ELSE LET supabaseResults == searchChunks(q, InitialRpcThreshold,
                                                 finalMaxResults * OverFetchFactor,
                                                 NoFilter, rpc)
                 out == AdaptiveFilter(supabaseResults, Alpha, beta, finalMaxResults)
             IN  [status |-> "returned", results |-> out.results, stages |-> out.stages,
                  candidates |-> Len(supabaseResults),
                  fetched |-> SortDesc(supabaseResults), filtered |-> out.filtered,
                  embedded |-> embedded]

\* _performAdvancedVectorSearch behind searchWithLegacyRAG: generateEmbedding
\* rethrows; the filter keeps similarity >= max(0, 1.5 * best - 0.5).
LegacySearch(q, maxResults, companyFilter, embedOk, rpc) ==
    IF ~embedOk THEN SearchCatch_Rethrow @@ [embedded |-> LegacyEmbeddedText(q)]
    ELSE LET rows == SortDesc(searchChunks(q, InitialRpcThreshold,
                                 IF maxResults # NoMax THEN maxResults * 2 ELSE 20,
                                 companyFilter, rpc))
             floor == IF Len(rows) = 0 \/ 3 * rows[1].similarity - SimScale < 0 THEN 0
                      ELSE 3 * rows[1].similarity - SimScale
             kept == SelectSeq(rows, LAMBDA x : 2 * x.similarity >= floor)
         IN  [status |-> "returned",
              results |-> Take(kept, IF maxResults # NoMax THEN maxResults ELSE 10),
              stages |-> IF Len(rows) = 0 THEN {} ELSE {"legacy"},
              candidates |-> Len(rows), fetched |-> rows, filtered |-> kept,
              embedded |-> LegacyEmbeddedText(q)]

\* searchFinancialDocuments: the modern search with the strictness capped at
\* 0.05 (0.05 when the caller gives none) and only filters.documentId passed
\* on; only a throw of the modern search reaches the legacy search.
searchFinancialDocuments(q, opt, embedOk, rpc) ==
    LET beta == IF opt.similarityThreshold # NoBeta
                THEN (IF opt.similarityThreshold < BetaCap THEN opt.similarityThreshold
                      ELSE BetaCap)
                ELSE BetaCap
        modern == ModernSearch(q, opt.maxResults, beta, ProfileMeta(opt.documentId),
                               embedOk, rpc)
    IN  IF modern.status = "threw"
        THEN LegacySearch(q, opt.maxResults, opt.company, embedOk, rpc)
        ELSE modern

SearchOption(maxResults, similarityThreshold, company, documentId) ==
    [maxResults |-> maxResults, similarityThreshold |-> similarityThreshold,
     company |-> company, documentId |-> documentId]

SearchOptions ==
    { SearchOption(NoMax, NoBeta, NoFilter, ""),
      SearchOption(2, BetaDen, NoFilter, "d1"),
      SearchOption(2, NoBeta, MaxDocs, "") }

NoSearch ==
    [api |-> "none", status |-> "none", results |-> <<>>, stages |-> {}, candidates |-> 0,
     fetched |-> <<>>, filtered |-> <<>>, embedded |-> "",
     q |-> 0, opt |-> SearchOption(NoMax, NoBeta, NoFilter, ""),
     embedOk |-> TRUE, rpc |-> "ok", storeRows |-> 0, memoryRows |-> 0]

SearchOutcome(api, out, q, opt, embedOk, rpc) ==
    [api |-> api, status |-> out.status, results |-> out.results, stages |-> out.stages,
     candidates |-> out.candidates, fetched |-> out.fetched, filtered |-> out.filtered,
     embedded |-> out.embedded, q |-> q, opt |-> opt,
     embedOk |-> embedOk, rpc |-> rpc,
     storeRows |-> Len(dbChunks), memoryRows |-> Len(globalChunkStorage)]

\* A caller runs ModernRagService.search to completion.
Search(q, opt, embedOk, rpc) ==
    /\ sr' = SearchOutcome("search",
                           ModernSearch(q, opt.maxResults, opt.similarityThreshold,
                                        ProfileMeta(opt.documentId), embedOk, rpc),
                           q, opt, embedOk, rpc)
    /\ UNCHANGED <<useSupabase, dbChunks, globalChunkStorage, req, studyVars>>

\* A caller runs FinanceRAGService.searchFinancialDocuments to completion.
SearchFinancialDocuments(q, opt, embedOk, rpc) ==
    /\ sr' = SearchOutcome("searchFinancialDocuments",
                           searchFinancialDocuments(q, opt, embedOk, rpc),
                           q, opt, embedOk, rpc)
    /\ UNCHANGED <<useSupabase, dbChunks, globalChunkStorage, req, studyVars>>

(***************************************************************************)
(* The pipeline specification                                              *)
(***************************************************************************)
NoCall == [op |-> "none"]

\* A ProcessingJob of processingJobs, before the call has created it.
NoJob == [status |-> "none", progress |-> 0, error |-> FALSE, ended |-> FALSE]

NoResult ==
    [kind |-> "none", success |-> FALSE, chunksCreated |-> 0, profileCreated |-> FALSE,
     error |-> FALSE]

NoCallback == -1
NeverThrows == 0

\* An uploadAndProcess call before it starts.  document is the
\* processing_status of the call's row of table documents ("none": no row),
\* progress the values the onProgress callback has been given, throwsAt the
\* progress value at which the callback throws.
NoUpload ==
    [pc |-> "idle", fileType |-> "", throwsAt |-> NoCallback, job |-> NoJob,
     document |-> "none", chunks |-> 0, progress |-> <<>>, result |-> NoResult]

NoRun == [alpha |-> 0, beta |-> NoBeta, maxResults |-> 0, cutoff |-> 0, relative |-> <<>>,
          filtered |-> <<>>, results |-> <<>>, stages |-> {}, ran |-> FALSE]

Init ==
    /\ useSupabase \in BOOLEAN
    /\ dbChunks = <<>>
    /\ globalChunkStorage = <<>>
    /\ req = [r \in Reqs |-> IdleReq]
    /\ sr = NoSearch
    /\ fCands = <<>>
    /\ fPrev = NoRun
    /\ fCur = NoRun
    /\ fn = NoCall
    /\ up = NoUpload

Next ==
    \/ \E r \in Reqs, d \in Docs, shape \in Shapes : ProcessDocument(r, d, shape)
    \/ \E r \in Reqs : ModernEmbedOk(r)
    \/ \E r \in Reqs : ModernEmbedFails(r)
    \/ \E r \in Reqs, ok \in BOOLEAN : InsertParentChunks(r, ok)
    \/ \E r \in Reqs, ok \in BOOLEAN : InsertChildChunks(r, ok)
    \/ \E r \in Reqs : CreateProfile(r)
    \/ \E r \in Reqs, sd \in StructuredSamples : LegacyExtract(r, sd)
    \/ \E r \in Reqs : LegacyEmbedOk(r)
    \/ \E r \in Reqs : LegacyEmbedFails(r)

Spec == Init /\ [][Next]_vars

(***************************************************************************)
(* The search specification: one processDocument call fills the store and  *)
(* searches run at any moment of it.                                       *)
(***************************************************************************)
NextSearch ==
    \/ \E d \in Docs, shape \in Shapes : ProcessDocument(1, d, shape)
    \/ ModernEmbedOk(1)
    \/ ModernEmbedFails(1)
    \/ \E ok \in BOOLEAN : InsertParentChunks(1, ok)
    \/ \E ok \in BOOLEAN : InsertChildChunks(1, ok)
    \/ CreateProfile(1)
    \/ \E sd \in StructuredSamples : LegacyExtract(1, sd)
    \/ LegacyEmbedOk(1)
    \/ LegacyEmbedFails(1)
    \/ \E q \in Queries, opt \in SearchOptions, c \in CallOutcomes :
         Search(q, opt, c[1], c[2])
    \/ \E q \in Queries, opt \in SearchOptions, c \in CallOutcomes :
         SearchFinancialDocuments(q, opt, c[1], c[2])

SpecSearch == Init /\ [][NextSearch]_vars

(***************************************************************************)
(* The filter specification: a fixed candidate list, filtered repeatedly   *)
(* under different alpha, beta and maxResults.                             *)
(***************************************************************************)
SimVals == {50, 90, 100}
AlphaVals == {Alpha, 75}
BetaVals == {NoBeta, 0, 10, BetaDen}
MaxResultsVals == {2, DefaultMaxResults}

Cand(i, v) == [chunkId |-> <<0, i>>, similarity |-> v]
CandsOf(sims) == [i \in 1..Len(sims) |-> Cand(i, sims[i])]
Sims(results) == [i \in 1..Len(results) |-> results[i].similarity]

ScenarioD == <<82, 81, 40, 39, 10>>
SpreadList == <<100, 90, 90, 90, 50>>

CandLists ==
    { CandsOf(sims) : sims \in UNION { [1..n -> SimVals] : n \in 0..MaxCands } }
      \cup { CandsOf(ScenarioD), CandsOf(SpreadList) }

InitFilter ==
    /\ useSupabase = TRUE
    /\ dbChunks = <<>>
    /\ globalChunkStorage = <<>>
    /\ req = [r \in Reqs |-> IdleReq]
    /\ sr = NoSearch
    /\ fCands \in CandLists
    /\ fPrev = NoRun
    /\ fCur = NoRun
    /\ fn = NoCall
    /\ up = NoUpload

\* One application of the filter stages of search to the fixed candidates.
FilterRun(alpha, beta, maxResults) ==
    /\ fPrev' = fCur
    /\ fCur' = LET out == AdaptiveFilter(fCands, alpha, beta, maxResults)
               IN  [alpha |-> alpha, beta |-> beta, maxResults |-> maxResults,
                    cutoff |-> IF Len(fCands) = 0 THEN 0
                               ELSE RelativeCutoff(SortDesc(fCands), alpha),
                    relative |-> IF Len(fCands) = 0 THEN <<>>
                                 ELSE RelativeCutoffFilter(SortDesc(fCands), alpha),
                    filtered |-> out.filtered,
                    results |-> out.results, stages |-> out.stages, ran |-> TRUE]
    /\ UNCHANGED <<pipelineVars, fCands, fn, up>>

NextFilter ==
    \E alpha \in AlphaVals, beta \in BetaVals, maxResults \in MaxResultsVals :
        FilterRun(alpha, beta, maxResults)

SpecFilter == InitFilter /\ [][NextFilter]_vars

(***************************************************************************)
(* Structured extraction (financeRagService.ts 494-711).  A document text  *)
(* is a sequence of lines of the form "<label>: $<whole>.<frac> <unit>";   *)
(* the extracted record is reduced to financialMetrics and to the number   *)
(* of keyHighlights.                                                       *)
(***************************************************************************)
MetricLine(label, whole, frac, unit) ==
    [label |-> label, whole |-> whole, frac |-> frac, unit |-> unit]

includes(s, k) == \E i \in 1..(Len(s) - Len(k) + 1) : SubSeq(s, i, i + Len(k) - 1) = k

\* number | null: <<n>> for the number n, <<>> for null.
NullNumber == <<>>

\* parseFloat(match[1]) scaled by the unit; a text without unit carries a
\* whole number (and is not followed by a label that opens with m or b, which
\* the unit group would take for a unit).
ParsedNumber(line) ==
    CASE line.unit \in {"million", "m"} -> (10 * line.whole + line.frac) * 100000
      [] line.unit \in {"billion", "b"} -> (10 * line.whole + line.frac) * 100000000
      [] OTHER -> line.whole

\* The line a pattern of extractFinancialNumber matches first for a keyword,
\* 0 when it matches nowhere.  On lines of the form above: pattern 1 needs the
\* keyword right before the colon; pattern 2 needs the keyword (or "in "
\* keyword) to open the line after a number; pattern 3 (keyword was|were|of
\* number) matches nowhere; pattern 4 needs the keyword anywhere in a label.
FirstLine(S) == IF S = {} THEN 0 ELSE CHOOSE i \in S : \A j \in S : i <= j

PatternMatch(text, keyword, pattern) ==
    CASE pattern = 1 ->
           FirstLine({i \in 1..Len(text) : endsWith(text[i].label, keyword)})
      [] pattern = 2 ->
           FirstLine({i \in 1..(Len(text) - 1) :
                         \/ startsWith(text[i + 1].label, keyword)
                         \/ startsWith(text[i + 1].label, "in " \o keyword)})
      [] pattern = 3 -> 0
      [] OTHER ->
           FirstLine({i \in 1..Len(text) : includes(text[i].label, keyword)})

\* extractFinancialNumber: the keywords in order, for each the four patterns in
\* order; the first match gives the number, sign never considered.
RECURSIVE extractFinancialNumberFrom(_, _, _, _)
extractFinancialNumberFrom(text, keywords, k, pattern) ==
    IF k > Len(keywords) THEN NullNumber
    ELSE IF pattern > 4 THEN extractFinancialNumberFrom(text, keywords, k + 1, 1)
    ELSE LET i == PatternMatch(text, keywords[k], pattern)
         IN  IF i # 0 THEN <<ParsedNumber(text[i])>>
             ELSE extractFinancialNumberFrom(text, keywords, k, pattern + 1)

extractFinancialNumber(text, keywords) == extractFinancialNumberFrom(text, keywords, 1, 1)

\* content.toLowerCase() of createFallbackStructuredData.
LowerText(content) ==
    [i \in 1..Len(content) |-> [content[i] EXCEPT !.label = toLowerCase(@)]]

Truthy(number) == number # NullNumber /\ number[1] # 0

\* createFallbackStructuredData.
createFallbackStructuredData(content) ==
    LET text == LowerText(content)
        revenue == extractFinancialNumber(text,
                       <<"revenue", "sales", "total revenue", "product revenue",
                         "total product revenue">>)
        netIncome == extractFinancialNumber(text,
                       <<"net income", "profit", "earnings", "net loss", "loss">>)
        eps == extractFinancialNumber(text,
                       <<"eps", "earnings per share", "diluted eps", "basic eps">>)
        grossProfit == extractFinancialNumber(text, <<"gross profit", "gross margin">>)
        operatingIncome == extractFinancialNumber(text,
                       <<"operating income", "operating profit", "operating loss">>)
        freeCashFlow == extractFinancialNumber(text, <<"free cash flow", "fcf", "cash flow">>)
    IN  [financialMetrics |->
            [revenue |-> revenue, netIncome |-> netIncome, eps |-> eps,
             grossProfit |-> grossProfit, operatingIncome |-> operatingIncome,
             freeCashFlow |-> freeCashFlow],
         keyHighlights |->
            3 + Cardinality({m \in {"g", "o", "f"} :
                   Truthy(CASE m = "g" -> grossProfit
                            [] m = "o" -> operatingIncome
                            [] OTHER -> freeCashFlow)})]

\* How the chat completion of extractFinancialData can end: the call rejects,
\* the message has no content, the content holds no {...}, the {...} does not
\* parse, the {...} parses.
LlmOutcomes == {"call_error", "no_content", "no_json", "bad_json", "json"}

extractFinancialData_Rethrow(content, llm, parsed) ==
    IF llm = "json" THEN [status |-> "returned", source |-> "llm", data |-> parsed]
    ELSE IF llm \in {"call_error", "bad_json"} THEN [status |-> "threw"]
    ELSE [status |-> "returned", source |-> "fallback",
          data |-> createFallbackStructuredData(content)]

\* extractFinancialData: the parsed object when the response holds a JSON
\* object that parses, the fallback record on every other outcome.
extractFinancialData(content, llm, parsed) ==
    IF llm = "json" THEN [status |-> "returned", source |-> "llm", data |-> parsed]
    ELSE [status |-> "returned", source |-> "fallback",
          data |-> createFallbackStructuredData(content)]

(***************************************************************************)
(* Structure detection (pdfService.ts 245-335).  A line of the document is *)
(* represented by what the detector's tests make of it: blank after trim,  *)
(* a speaker line (with the name the speaker pattern captures), a          *)
(* financial-metrics line, a table line, or plain text.                    *)
(***************************************************************************)
DocLine(kind, speaker) == [kind |-> kind, speaker |-> speaker]

SpeakerLine(name) == DocLine("speaker", name)
PlainLine == DocLine("plain", "")
BlankLine == DocLine("blank", "")
MetricsLine == DocLine("metrics", "")
TableLine == DocLine("table", "")

\* A section of detectDocumentStructure; content is the list of the (0-based)
\* lines joined into it, speaker "" when the field is absent.
Span(type, content, speaker, startLine) ==
    [type |-> type, content |-> content, speaker |-> speaker, startLine |-> startLine]

\* if (currentSection.content.trim()) sections.push({ ...currentSection }).
PushCurrent(st) ==
    IF st.currentSection.content # <<>> THEN Append(st.sections, st.currentSection)
    ELSE st.sections

StartOrExtend(st, type, i) ==
    IF st.currentSection.type # type
    THEN [sections |-> PushCurrent(st), currentSection |-> Span(type, <<i>>, "", i)]
    ELSE [st EXCEPT !.currentSection.content = Append(@, i)]

DetectLine_Merge(st, line, i) ==
    IF line.kind = "blank" THEN st
    ELSE IF line.kind = "speaker" /\ st.currentSection.type # "transcript"
    THEN [sections |-> PushCurrent(st),
          currentSection |-> Span("transcript", <<i>>, line.speaker, i)]
    ELSE [st EXCEPT !.currentSection.content = Append(@, i)]

\* The body of the loop over the lines, for line i.
DetectLine(st, line, i) ==
    CASE line.kind = "blank" -> st
      [] line.kind = "speaker" ->
           [sections |-> PushCurrent(st),
            currentSection |-> Span("transcript", <<i>>, line.speaker, i)]
      [] line.kind = "metrics" -> StartOrExtend(st, "financial_metrics", i)
      [] line.kind = "table" -> StartOrExtend(st, "table", i)
      [] OTHER -> [st EXCEPT !.currentSection.content = Append(@, i)]

RECURSIVE DetectLoop(_, _, _)
DetectLoop(st, lines, i) ==
    IF i >= Len(lines) THEN st
    ELSE DetectLoop(DetectLine(st, lines[i + 1], i), lines, i + 1)

detectDocumentStructure(lines) ==
    PushCurrent(DetectLoop([sections |-> <<>>,
                            currentSection |-> Span("narrative", <<>>, "", 0)],
                           lines, 0))

(***************************************************************************)
(* The function specification: the pure functions of the pipeline, each    *)
(* applied to inputs drawn from small sets.                                *)
(***************************************************************************)
QueryTexts ==
    {"", "Net loss?", "revenue in Q3 2024?", "revenue for Q3 2024?",
     "what was the revenue of the quarter"}

DocMetas ==
    {NoMeta, DocMeta("Acme", "Q3 2024", "d1"), DocMeta("Acme", "", "d1"),
     DocMeta("", "Q3 2024", "d1"), DocMeta("Acme", "Q3 2024", "")}

\* rewriteQueryForEmbedding(query, docMeta) is called.
RewriteQuery(query, docMeta) ==
    /\ fn = NoCall
    /\ fn' = [op |-> "rewriteQueryForEmbedding", query |-> query, docMeta |-> docMeta,
              out |-> rewriteQueryForEmbedding(query, docMeta)]
    /\ UNCHANGED <<pipelineVars, filterVars, up>>

ScenarioC ==
    << MetricLine("Revenue", 734, 2, "million"), MetricLine("Net Loss", 194, 3, "million") >>

Contents ==
    { <<>>,
      ScenarioC,
      << MetricLine("Net Income", 50, 0, ""), MetricLine("Total Revenue", 1, 2, "billion") >>,
      << MetricLine("Gross Profit", 10, 5, "million"),
         MetricLine("Operating Loss", 3, 0, "million"),
         MetricLine("Free Cash Flow", 7, 0, "m") >>,
      << MetricLine("Headcount", 120, 0, ""), MetricLine("Sales growth", 4, 0, "") >> }

\* extractFinancialData(content) is called and the chat completion ends.
\* A chat completion as extractFinancialData sees it: the call rejects, the
\* message has no content, or the content is a text.  A text is cut into
\* segments: "text" holds no brace, "object" is a JSON object that parses to
\* the record data, "braces" is other text that begins with { and ends with }.
Segment(kind, data) == [kind |-> kind, data |-> data]

NoRecord == Structured(FALSE, FALSE, FALSE, FALSE, 0)

TextSegment == Segment("text", NoRecord)
BracesSegment == Segment("braces", NoRecord)
ObjectSegment(data) == Segment("object", data)

MaxSegments == 3

SegmentKinds ==
    { TextSegment, BracesSegment,
      ObjectSegment(Structured(FALSE, FALSE, FALSE, TRUE, 3)),
      ObjectSegment(Structured(TRUE, TRUE, TRUE, TRUE, 2)) }

Completion(status, segments) == [status |-> status, segments |-> segments]

Completions ==
    { Completion("call_error", <<>>), Completion("no_content", <<>>) }
      \cup { Completion("content", segs) :
                segs \in UNION { [1..n -> SegmentKinds] : n \in 0..MaxSegments } }

Braced(segments) == {i \in 1..Len(segments) : segments[i].kind # "text"}

MinOf(S) == CHOOSE i \in S : \A j \in S : i <= j
MaxOf(S) == CHOOSE i \in S : \A j \in S : j <= i

\* result.match(/\{[\s\S]*\}/): the greedy match runs from the first { of the
\* text to its last }; <<>> when there is none.
JsonMatch(segments) ==
    IF Braced(segments) = {} THEN <<>>
    ELSE SubSeq(segments, MinOf(Braced(segments)), MaxOf(Braced(segments)))

\* How the try block of extractFinancialData ends for a completion: JSON.parse
\* accepts the match only when it is one JSON object and nothing else.
LlmOutcome(completion) ==
    IF completion.status # "content" THEN completion.status
    ELSE LET jsonMatch == JsonMatch(completion.segments)
         IN  IF jsonMatch = <<>> THEN "no_json"
             ELSE IF Len(jsonMatch) = 1 /\ jsonMatch[1].kind = "object" THEN "json"
             ELSE "bad_json"

\* JSON.parse(jsonStr) when the match parses.
ParsedJson(completion) ==
    IF LlmOutcome(completion) = "json" THEN JsonMatch(completion.segments)[1].data
    ELSE NoRecord

ExtractFinancialData(content, completion) ==
    /\ fn = NoCall
    /\ fn' = [op |-> "extractFinancialData", content |-> content,
              completion |-> completion, llm |-> LlmOutcome(completion),
              out |-> extractFinancialData(content, LlmOutcome(completion),
                                           ParsedJson(completion))]
    /\ UNCHANGED <<pipelineVars, filterVars, up>>

MaxLines == 3

LineKinds ==
    {SpeakerLine("Operator"), SpeakerLine("Jane Doe"), PlainLine, BlankLine, MetricsLine,
     TableLine}

ScenarioB ==
    << SpeakerLine("Operator"), PlainLine, SpeakerLine("Jane Doe"), PlainLine, BlankLine,
       PlainLine, SpeakerLine("Operator") >>

Documents ==
    UNION { [1..n -> LineKinds] : n \in 0..MaxLines } \cup {ScenarioB}

\* detectDocumentStructure(content) is called.
DetectDocumentStructure(lines) ==
    /\ fn = NoCall
    /\ fn' = [op |-> "detectDocumentStructure", lines |-> lines,
              out |-> detectDocumentStructure(lines)]
    /\ UNCHANGED <<pipelineVars, filterVars, up>>

InitFunctions ==
    /\ useSupabase = TRUE
    /\ dbChunks = <<>>
    /\ globalChunkStorage = <<>>
    /\ req = [r \in Reqs |-> IdleReq]
    /\ sr = NoSearch
    /\ fCands = <<>>
    /\ fPrev = NoRun
    /\ fCur = NoRun
    /\ fn = NoCall
    /\ up = NoUpload

\* A behaviour of the function study is one call of one function.
NextFunctions ==
    \/ \E query \in QueryTexts, docMeta \in DocMetas : RewriteQuery(query, docMeta)
    \/ \E content \in Contents, completion \in Completions :
         ExtractFinancialData(content, completion)
    \/ \E lines \in Documents : DetectDocumentStructure(lines)

SpecFunctions == InitFunctions /\ [][NextFunctions]_vars

(***************************************************************************)
(* Claims about storing and processing (specification Spec)                *)
(***************************************************************************)
Ids(chunks) == {chunks[i].id : i \in 1..Len(chunks)}

\* The rows of the table that come from the given chunk list.
StoredOf(chunks) == SelectSeq(dbChunks, LAMBDA row : row.id \in Ids(chunks))

ParentBeforeChild(inserted) ==
    \A i \in 1..Len(inserted) :
        IsChild(inserted[i]) =>
            \E j \in 1..(i - 1) :
                /\ inserted[j].id = inserted[i].parentChunkId
                /\ ~IsChild(inserted[j])
                /\ inserted[j].documentId = inserted[i].documentId

\* C1: in the insertion sequence of the chunk store (the table, and the
\* in-memory list of demo mode) every child chunk comes strictly after the
\* chunk its parentChunkId names, which is a parent-level chunk of the same
\* document.
C1_ParentBeforeChild ==
    /\ ParentBeforeChild(dbChunks)
    /\ ParentBeforeChild(globalChunkStorage)

\* Children of two different calls are in the table.
C1_Witness ==
    \E i, j \in 1..Len(dbChunks) :
        /\ IsChild(dbChunks[i]) /\ IsChild(dbChunks[j])
        /\ dbChunks[i].id[1] # dbChunks[j].id[1]

\* The storeChunks call of the modern path inserted its parents and then
\* failed to insert its children.
ChildBatchFailed(q) ==
    /\ Len(q.batchLog) >= 2
    /\ q.batchLog[1] = <<"modern", "parents", TRUE>>
    /\ q.batchLog[2] = <<"modern", "children", FALSE>>

ScenarioE(q) ==
    /\ ChildBatchFailed(q)
    /\ Len(ParentBatch(q.legacyChunks)) = 2
    /\ Len(ChildBatch(q.legacyChunks)) = 5

\* C2: when storeChunks is given 2 parent and 5 child chunks and the child
\* insert fails after the parent insert succeeded, exactly the 2 parents are in
\* the table (no child, no rollback) and storeChunks throws to its caller.
C2_PartialSuccess ==
    \A r \in Reqs :
        ScenarioE(req[r]) =>
            /\ StoredOf(req[r].legacyChunks) = ParentBatch(req[r].legacyChunks)
            /\ Len(StoredOf(req[r].legacyChunks)) = 2
            /\ req[r].scReturns[1] = <<"modern", "threw">>

C2_Witness == \E r \in Reqs : ScenarioE(req[r])

\* The chunk list a call gave to storeChunks on the given path.
CallChunks(q, path) == IF path = "modern" THEN q.legacyChunks ELSE q.chunks

\* C3: when the parent insert fails, storeChunks attempts no child insert,
\* stores none of the chunks of the call and throws to its caller.
C3_ParentFailureAborts ==
    \A r \in Reqs : \A k \in 1..Len(req[r].batchLog) :
        LET q == req[r]
            path == q.batchLog[k][1]
        IN  (q.batchLog[k][2] = "parents" /\ ~q.batchLog[k][3]) =>
                /\ \A m \in 1..Len(q.batchLog) :
                      q.batchLog[m][1] = path => q.batchLog[m][2] # "children"
                /\ StoredOf(CallChunks(q, path)) = <<>>
                /\ \E m \in 1..Len(q.scReturns) : q.scReturns[m] = <<path, "threw">>

\* The parent insert of a call with child chunks failed.
C3_Witness ==
    \E r \in Reqs :
        /\ Len(req[r].batchLog) >= 1
        /\ req[r].batchLog[1] = <<"modern", "parents", FALSE>>
        /\ ChildBatch(req[r].legacyChunks) # <<>>

\* C4: if an embedding call fails during processDocument, the call ends in
\* failure and returns no chunk list.
C4_EmbeddingFailureIsFatal ==
    \A r \in Reqs : req[r].embedFailed => req[r].result # "ok"

\* The rows of the table that belong to document d.
StoredOfDoc(d) == SelectSeq(dbChunks, LAMBDA row : row.documentId = d)

\* C5: if the child insert fails after the parent insert during
\* processDocument, the call reports failure and the table holds, for that
\* document, exactly the committed parent chunks (no other call writing the
\* same document).
C5_ChildFailureIsReported ==
    \A r \in Reqs :
        (/\ ChildBatchFailed(req[r])
         /\ req[r].pc \in {"done", "failed"}
         /\ \A p \in Reqs \ {r} : req[p].doc # req[r].doc) =>
            /\ req[r].result = "failed"
            /\ StoredOfDoc(req[r].doc) = ParentBatch(req[r].legacyChunks)

\* C6: when processDocument completes successfully, every returned chunk has
\* an embedding, of the one dimension of the deployment.
C6_EmbeddingComplete ==
    \A r \in Reqs :
        req[r].result = "ok" =>
            \A i \in 1..Len(req[r].returned) :
                /\ req[r].returned[i].embedding # NoEmbedding
                /\ req[r].returned[i].embedding = EmbeddingDim

\* One call returned chunks of the modern path, another chunks of the legacy path.
C6_Witness ==
    \E r, p \in Reqs :
        /\ req[r].result = "ok" /\ req[r].path = "modern" /\ Len(req[r].returned) > 0
        /\ req[p].result = "ok" /\ req[p].path = "legacy" /\ Len(req[p].returned) > 0

(***************************************************************************)
(* Claims about search (specification SpecSearch)                          *)
(***************************************************************************)
\* C7: when the query-embedding call or the store search fails, the search
\* call (ModernRagService.search as well as searchFinancialDocuments) returns
\* an empty list and does not throw.
C7_SearchFailsClosed ==
    (sr.api # "none" /\ (~sr.embedOk \/ sr.rpc = "error")) =>
        /\ sr.status = "returned"
        /\ sr.results = <<>>

\* A search whose query embedding failed, over a table that holds rows.
C7_Witness ==
    /\ sr.api = "searchFinancialDocuments"
    /\ ~sr.embedOk
    /\ sr.storeRows > 0

\* C8: a search over a store with zero chunks returns an empty list and no
\* error; when the initial fetch returns no candidate, the search returns
\* empty without running a filter stage.
C8_EmptyCorpus ==
    sr.api # "none" =>
        /\ sr.storeRows = 0 => (sr.status = "returned" /\ sr.results = <<>>)
        /\ (sr.status = "returned" /\ sr.candidates = 0) =>
               (sr.results = <<>> /\ sr.stages = {})

\* A search whose calls all succeeded, over an enabled and empty table.
C8_Witness ==
    /\ sr.api = "search"
    /\ useSupabase
    /\ sr.embedOk /\ sr.rpc = "ok"
    /\ sr.storeRows = 0
    /\ sr.status = "returned"

(***************************************************************************)
(* Claims about the adaptive filter (specification SpecFilter)             *)
(***************************************************************************)
BothRan == fPrev.ran /\ fCur.ran /\ fPrev.maxResults = fCur.maxResults

AlphaRaised == BothRan /\ fPrev.beta = fCur.beta /\ fPrev.alpha <= fCur.alpha

BetaRaised ==
    /\ BothRan /\ fPrev.alpha = fCur.alpha
    /\ fPrev.beta # NoBeta /\ fCur.beta # NoBeta /\ fPrev.beta <= fCur.beta

RECURSIVE MaxSim(_)
MaxSim(s) ==
    IF Len(s) = 1 THEN s[1].similarity
    ELSE LET m == MaxSim(Tail(s))
         IN  IF s[1].similarity >= m THEN s[1].similarity ELSE m

\* C10: with alpha = 0.5 the survivors of the relative-cutoff stage are exactly
\* the candidates whose similarity is not below best * 0.5, best being the
\* greatest similarity; for [0.82, 0.81, 0.40, 0.39, 0.10] the cutoff is 0.41
\* and the survivors are [0.82, 0.81].
C10_RelativeCutoff ==
    (fCur.ran /\ fCur.alpha = Alpha /\ Len(fCands) > 0) =>
        /\ \A i \in 1..Len(fCands) :
              (\E j \in 1..Len(fCur.relative) : fCur.relative[j] = fCands[i])
                  <=> 2 * fCands[i].similarity >= MaxSim(fCands)
        /\ Len(fCur.relative) =
              Cardinality({i \in 1..Len(fCands) : 2 * fCands[i].similarity >= MaxSim(fCands)})
        /\ fCands = CandsOf(ScenarioD) =>
              /\ fCur.cutoff = 41 * AlphaDen
              /\ Sims(fCur.relative) = <<82, 81>>

C10_Witness ==
    /\ fCur.ran /\ fCur.alpha = Alpha
    /\ fCands = CandsOf(ScenarioD)
    /\ Sims(fCur.relative) = <<82, 81>>

(***************************************************************************)
(* Claims about the results of a search (specification SpecSearch)         *)
(***************************************************************************)
\* The result count the caller asked for: maxResults, 5 when it gave none.
RequestedMax(opt) == IF opt.maxResults = NoMax THEN 5 ELSE opt.maxResults

\* The survivors of the relative cutoff at 0.5 among rows sorted descending.
RelativeSurvivors(rows) ==
    IF rows = <<>> THEN <<>>
    ELSE SelectSeq(rows, LAMBDA x : 2 * x.similarity >= rows[1].similarity)

Returned == sr.api # "none" /\ sr.status = "returned"

\* C11: when the caller of a search (ModernRagService.search or
\* searchFinancialDocuments) supplies no strictness value, the statistical
\* stage does not run and the result is exactly the relative-cutoff survivors
\* truncated to maxResults.
C11_NoBetaSkipsStatistical ==
    (Returned /\ sr.opt.similarityThreshold = NoBeta) =>
        /\ "statistical" \notin sr.stages
        /\ sr.results = SubSeq(RelativeSurvivors(sr.fetched), 1,
                               IF Len(RelativeSurvivors(sr.fetched)) < RequestedMax(sr.opt)
                               THEN Len(RelativeSurvivors(sr.fetched))
                               ELSE RequestedMax(sr.opt))

\* C12: a search never returns more results than the requested maxResults (5
\* when none is requested), and what it returns are the highest-ranked
\* survivors of the filter stages: as many of them as the limit allows, none
\* ranked below a survivor that was left out.
C12_AtMostMaxResults ==
    Returned =>
        /\ Len(sr.results) <= RequestedMax(sr.opt)
        /\ Len(sr.results) = Len(sr.filtered) \/ Len(sr.results) = RequestedMax(sr.opt)
        /\ \A j \in 1..Len(sr.results) :
              \E i \in 1..Len(sr.filtered) : sr.filtered[i] = sr.results[j]
        /\ \A i \in 1..Len(sr.filtered) :
              \/ \E j \in 1..Len(sr.results) : sr.results[j] = sr.filtered[i]
              \/ \A j \in 1..Len(sr.results) :
                    sr.filtered[i].similarity <= sr.results[j].similarity

\* A search whose filter stages left more survivors than the caller asked for.
C12_Witness ==
    /\ Returned
    /\ Len(sr.filtered) > RequestedMax(sr.opt)
    /\ Len(sr.results) = RequestedMax(sr.opt)

\* C13: the results of a search are in descending similarity order.
C13_DescendingOrder ==
    Returned =>
        \A i, j \in 1..Len(sr.results) :
            i < j => sr.results[i].similarity >= sr.results[j].similarity

\* A search that returned results of different similarities.
C13_Witness ==
    /\ Returned
    /\ Len(sr.results) >= 2
    /\ sr.results[1].similarity > sr.results[Len(sr.results)].similarity

\* The text the legacy search embeds is the raw query or the raw query behind
\* one framing.
LegacyRewrittenOnce ==
    \A q \in Queries :
        LegacyEmbeddedText(q) \in
            {QueryText(q),
             LegacyFraming \o "answer this question: " \o QueryText(q),
             LegacyFraming \o "provide information about: " \o QueryText(q)}

\* C14: the text a search embeds is the caller's query rewritten once, the
\* framing prefix standing once before the raw query, never the rewrite of a
\* rewrite; the same holds for the text the legacy search embeds.
C14_RewriteOnce ==
    /\ sr.api # "none" =>
          LET prefix == FramingPrefix(ProfileMeta(sr.opt.documentId))
              raw == QueryText(sr.q)
          IN  sr.embedded \in {prefix \o raw, prefix \o "answer this: " \o raw}
    /\ LegacyRewrittenOnce

\* A search through searchFinancialDocuments that embedded a short query.
C14_Witness ==
    /\ sr.api = "searchFinancialDocuments"
    /\ sr.embedOk
    /\ sr.embedded = "Regarding the uploaded financial documents, answer this: Net loss?"

\* C16: when a search request carries a company filter (report-type and
\* fiscal-year filters are handled by the same code), every result returned
\* satisfies it.
C16_FiltersRespected ==
    (sr.api = "searchFinancialDocuments" /\ sr.status = "returned"
       /\ sr.opt.company # NoFilter) =>
        \A i \in 1..Len(sr.results) : sr.results[i].companyName = sr.opt.company

\* C17: in demo mode (no persistent store configured) a search whose calls
\* succeed finds the chunks of the in-process collection that match its query.
C17_DemoModeSearchable ==
    (sr.api # "none" /\ ~useSupabase /\ sr.embedOk
       /\ \E i \in 1..sr.memoryRows :
             Sim(sr.q, globalChunkStorage[i]) >= InitialRpcThreshold) =>
        sr.candidates > 0

(***************************************************************************)
(* Claims about the pure functions (specification SpecFunctions)           *)
(***************************************************************************)
Rewritten == fn.op = "rewriteQueryForEmbedding"

\* The framing the claim describes: the company framing when the document's
\* company is known, the generic framing otherwise.
FramedAsClaimed ==
    /\ SubSeq(fn.out, 1, Len(FramingPrefix(fn.docMeta))) = FramingPrefix(fn.docMeta)
    /\ IF fn.docMeta.company # ""
       THEN SubSeq(fn.out, 1, 6 + Len(fn.docMeta.company)) = "About " \o fn.docMeta.company
       ELSE SubSeq(fn.out, 1, Len(GenericFraming)) = GenericFraming

\* What follows the framing prefix in the rewritten query.
AfterFraming == SubSeq(fn.out, Len(FramingPrefix(fn.docMeta)) + 1, Len(fn.out))

\* C15 as claimed: for every raw query shorter than 20 characters the
\* rewritten query is the framing prefix, then "answer this: ", then the raw
\* query; for every query of 20 characters or more it is the framing prefix
\* followed directly by the raw query.
C15_Original ==
    Rewritten =>
        /\ FramedAsClaimed
        /\ Len(fn.query) < 20 => AfterFraming = "answer this: " \o fn.query
        /\ Len(fn.query) >= 20 => AfterFraming = fn.query

\* C15 as amended: the above for every non-empty raw query; the empty query is
\* rewritten to the framing prefix alone.
C15_RewriteRule ==
    Rewritten =>
        /\ FramedAsClaimed
        /\ (Len(fn.query) < 20 /\ fn.query # "") => AfterFraming = "answer this: " \o fn.query
        /\ Len(fn.query) >= 20 => AfterFraming = fn.query
        /\ fn.query = "" => AfterFraming = ""

\* A 19-character query rewritten with a known company and period.
C15_Witness ==
    /\ Rewritten
    /\ fn.query = "revenue in Q3 2024?"
    /\ fn.out = "About Acme Q3 2024 filing (doc id: d1), answer this: revenue in Q3 2024?"

Extracted == fn.op = "extractFinancialData"

\* C18: the structured data extractor never throws and never returns null; on
\* a failed call, a response without JSON object and a JSON that does not
\* parse it returns the fallback record of the heuristic extraction.
C18_ExtractorNeverFails ==
    Extracted =>
        /\ fn.out.status = "returned"
        /\ DOMAIN fn.out.data # {}
        /\ fn.llm # "json" =>
              /\ fn.out.source = "fallback"
              /\ DOMAIN fn.out.data = {"financialMetrics", "keyHighlights"}
              /\ fn.out.data.keyHighlights >= 3

\* The extractor called on the two-line text, the response not parsing.
C18_Witness ==
    /\ Extracted
    /\ fn.llm = "bad_json"
    /\ fn.content = ScenarioC
    /\ fn.out.source = "fallback"

\* C19: with the LLM path disabled, the text "Revenue: $734.2 million",
\* "Net Loss: $194.3 million" gives financialMetrics.revenue = 734200000 and a
\* negative net income.
C19_FallbackScenario ==
    (Extracted /\ fn.llm # "json" /\ fn.content = ScenarioC) =>
        /\ fn.out.data.financialMetrics.revenue = <<734200000>>
        /\ fn.out.data.financialMetrics.netIncome # NullNumber
        /\ fn.out.data.financialMetrics.netIncome[1] < 0

Detected == fn.op = "detectDocumentStructure"

SpeakersOf(lines) ==
    LET turns == SelectSeq(lines, LAMBDA l : l.kind = "speaker")
    IN  [i \in 1..Len(turns) |-> turns[i].speaker]

\* A document of three speaker turns, Operator, Jane Doe, Operator, each turn
\* a speaker line and the plain lines after it, without metrics or table line.
ThreeTurns(lines) ==
    /\ SpeakersOf(lines) = <<"Operator", "Jane Doe", "Operator">>
    /\ \A i \in 1..Len(lines) : lines[i].kind \in {"speaker", "plain", "blank"}
    /\ \A i \in 1..Len(lines) :
          lines[i].kind = "plain" => \E j \in 1..(i - 1) : lines[j].kind = "speaker"

\* C20: for a document of 3 speaker turns beginning "Operator:", "Jane Doe:",
\* "Operator:" and no financial-metric line, the structure detector yields
\* exactly 3 spans, all of type transcript, the 2nd with speaker "Jane Doe".
C20_TranscriptSpans ==
    (Detected /\ ThreeTurns(fn.lines)) =>
        /\ Len(fn.out) = 3
        /\ \A i \in 1..3 : fn.out[i].type = "transcript"
        /\ fn.out[2].speaker = "Jane Doe"

\* The detector run on three turns with plain lines after them.
C20_Witness ==
    /\ Detected
    /\ fn.lines = ScenarioB
    /\ Len(fn.out) = 3


(***************************************************************************)
(* DocumentProcessor.uploadAndProcess (supabaseService.ts 1436-1499,       *)
(* 1665-1701).  ragService.processDocument, the text extractors and the    *)
(* documents table are environment choices.                                *)
(***************************************************************************)
MaxChunks == 2

FileTypes == {"pdf", "txt", "exe"}
CallbackChoices == {NoCallback, NeverThrows, 10, 50, 90, 100}

\* updateJobProgress on the job of the call.
updateJobProgress(job, progress, status, error) ==
    [status |-> status, progress |-> progress,
     error |-> IF error THEN TRUE ELSE job.error,
     ended |-> IF status \in {"completed", "failed"} THEN TRUE ELSE job.ended]

\* The catch block up to its await: the job is marked failed and
\* updateDocumentStatus(documentId, 'failed') is called.
UploadCatch(u) ==
    [u EXCEPT !.job = updateJobProgress(u.job, 0, "failed", TRUE), !.pc = "status_failed"]

\* updateJobProgress(jobId, progress, status); onProgress?.(progress); then the
\* call continues at pc next, or in the catch block when the callback throws.
UploadStep(u, progress, status, next) ==
    LET u1 == [u EXCEPT !.job = updateJobProgress(u.job, progress, status, FALSE),
                        !.progress = IF u.throwsAt = NoCallback THEN @
                                     ELSE Append(@, progress)]
    IN  IF u.throwsAt = progress THEN UploadCatch(u1) ELSE [u1 EXCEPT !.pc = next]

ProcessingResult(success, chunksCreated, error) ==
    [kind |-> "returned", success |-> success, chunksCreated |-> chunksCreated,
     profileCreated |-> success, error |-> error]

\* The promise of uploadAndProcess rejects.
UploadRejected == [NoResult EXCEPT !.kind = "threw", !.error = TRUE]

\* uploadAndProcess up to its first await: the job is created and
\* storeDocumentMetadata is called.
UploadAndProcess(fileType, throwsAt) ==
    /\ up.pc = "idle"
    /\ up' = [up EXCEPT !.pc = "store_metadata", !.fileType = fileType,
                        !.throwsAt = throwsAt,
                        !.job = [NoJob EXCEPT !.status = "pending"]]
    /\ UNCHANGED <<pipelineVars, filterVars, fn>>

\* storeDocumentMetadata returns: the row is inserted with status
\* 'processing', or the insert error is thrown.
StoreDocumentMetadataReturns(ok) ==
    /\ up.pc = "store_metadata"
    /\ up' = IF ok
             THEN UploadStep([up EXCEPT !.document = "processing"], 10, "processing",
                             "extract_text")
             ELSE UploadCatch(up)
    /\ UNCHANGED <<pipelineVars, filterVars, fn>>

\* extractTextContent returns: 'txt' is read from the buffer, 'pdf' goes
\* through the external extractors, which can throw, any other type here
\* throws 'Unsupported file type'.
ExtractTextContentReturns(ok) ==
    /\ up.pc = "extract_text"
    /\ up.fileType = "txt" => ok
    /\ up.fileType = "exe" => ~ok
    /\ up' = IF ok THEN UploadStep(up, 50, "processing", "process") ELSE UploadCatch(up)
    /\ UNCHANGED <<pipelineVars, filterVars, fn>>

\* ragService.processDocument resolves with n chunks or rejects.
RagProcessDocumentReturns(ok, n) ==
    /\ up.pc = "process"
    /\ up' = IF ok
             THEN UploadStep([up EXCEPT !.chunks = n], 90, "processing", "status_completed")
             ELSE UploadCatch(up)
    /\ UNCHANGED <<pipelineVars, filterVars, fn>>

\* updateDocumentStatus(documentId, 'completed') returns or throws the update
\* error; on return the job is completed at 100 and the result is returned.
UpdateStatusCompletedReturns(ok) ==
    /\ up.pc = "status_completed"
    /\ up' = IF ok
             THEN LET u == UploadStep([up EXCEPT !.document = "completed"], 100,
                                      "completed", "done")
                  IN  IF u.pc = "done"
                      THEN [u EXCEPT !.result = ProcessingResult(TRUE, u.chunks, FALSE)]
                      ELSE u
             ELSE UploadCatch(up)
    /\ UNCHANGED <<pipelineVars, filterVars, fn>>

\* The catch block: updateDocumentStatus(documentId, 'failed') returns, and
\* the failure result is returned, or it throws the update error, which
\* nothing catches.  An update that matches no row changes nothing.
UpdateStatusFailedReturns(ok) ==
    /\ up.pc = "status_failed"
    /\ up' = IF ok
             THEN [up EXCEPT !.pc = "done",
                             !.document = IF @ = "none" THEN "none" ELSE "failed",
                             !.result = ProcessingResult(FALSE, 0, TRUE)]
             ELSE [up EXCEPT !.pc = "done", !.result = UploadRejected]
    /\ UNCHANGED <<pipelineVars, filterVars, fn>>

InitUpload ==
    /\ useSupabase = TRUE
    /\ dbChunks = <<>>
    /\ globalChunkStorage = <<>>
    /\ req = [r \in Reqs |-> IdleReq]
    /\ sr = NoSearch
    /\ fCands = <<>>
    /\ fPrev = NoRun
    /\ fCur = NoRun
    /\ fn = NoCall
    /\ up = NoUpload

NextUpload ==
    \/ \E fileType \in FileTypes, throwsAt \in CallbackChoices :
         UploadAndProcess(fileType, throwsAt)
    \/ \E ok \in BOOLEAN : StoreDocumentMetadataReturns(ok)
    \/ \E ok \in BOOLEAN : ExtractTextContentReturns(ok)
    \/ \E ok \in BOOLEAN, n \in 0..MaxChunks : RagProcessDocumentReturns(ok, n)
    \/ \E ok \in BOOLEAN : UpdateStatusCompletedReturns(ok)
    \/ \E ok \in BOOLEAN : UpdateStatusFailedReturns(ok)

SpecUpload == InitUpload /\ [][NextUpload]_vars

(***************************************************************************)
(* Claims C21-C30                                                          *)
(***************************************************************************)
ChunksOfType(chunks, type) ==
    {i \in 1..Len(chunks) : chunks[i].chunkType = type}

\* C21: a processDocument call that succeeds yields exactly one
\* executive_summary chunk, and its highlight chunks are at level 3.
C21_OneExecutiveSummary ==
    \A r \in Reqs :
        req[r].result = "ok" =>
            /\ Cardinality(ChunksOfType(req[r].returned, "executive_summary")) = 1
            /\ \A i \in ChunksOfType(req[r].returned, "highlight") :
                   req[r].returned[i].chunkLevel = 3

IsPrefix(old, new) ==
    /\ Len(old) <= Len(new)
    /\ SubSeq(new, 1, Len(old)) = old

\* C22: under every interleaving of concurrent processDocument calls, a step
\* only appends to the chunk table and to the in-process collection (no stored
\* chunk is changed or removed), and every appended row carries the documentId
\* of the call that wrote it.
C22_ScopedAppendOnly ==
    [][/\ IsPrefix(dbChunks, dbChunks')
       /\ IsPrefix(globalChunkStorage, globalChunkStorage')
       /\ \A i \in (Len(dbChunks) + 1)..Len(dbChunks') :
              \E r \in Reqs :
                  /\ req[r].pc \in {"sc_parents", "sc_children"}
                  /\ req'[r] # req[r]
                  /\ dbChunks'[i].id[1] = r
                  /\ dbChunks'[i].documentId = req[r].doc
       /\ \A i \in (Len(globalChunkStorage) + 1)..Len(globalChunkStorage') :
              \E r \in Reqs :
                  /\ req'[r] # req[r]
                  /\ globalChunkStorage'[i].id[1] = r
                  /\ globalChunkStorage'[i].documentId = req[r].doc]_vars

\* Two calls for different documents wrote interleaved: a batch of the one
\* lies between two batches of the other.
C22_Witness ==
    /\ req[1].doc # req[2].doc
    /\ \E i, j, k \in 1..Len(dbChunks) :
          /\ i < j /\ j < k
          /\ dbChunks[i].id[1] = dbChunks[k].id[1]
          /\ dbChunks[j].id[1] # dbChunks[i].id[1]
          /\ dbChunks[i].documentId # dbChunks[j].documentId

\* C23 as claimed: whenever there is at least one candidate, the best
\* candidate survives the relative and the statistical stage for every beta,
\* so the result is never empty.
C23_Original ==
    (fCur.ran /\ fCur.alpha = Alpha /\ Len(fCands) > 0) =>
        /\ Len(fCur.filtered) > 0
        /\ fCur.filtered[1].similarity = MaxSim(fCands)
        /\ Len(fCur.results) > 0

\* C23 as amended: whenever there is at least one candidate, the best
\* candidate survives the relative-cutoff stage; when no beta is supplied, or
\* when the relative stage leaves a single survivor, it survives the whole
\* filter and heads a non-empty result.
C23_BestSurvives ==
    (fCur.ran /\ fCur.alpha = Alpha /\ Len(fCands) > 0) =>
        /\ Len(fCur.relative) > 0
        /\ fCur.relative[1].similarity = MaxSim(fCands)
        /\ (fCur.beta = NoBeta \/ Len(fCur.relative) = 1) =>
              /\ fCur.filtered = fCur.relative
              /\ Len(fCur.results) > 0
              /\ fCur.results[1].similarity = MaxSim(fCands)

\* The statistical stage ran with beta = 1 on a single survivor and kept it.
C23_Witness ==
    /\ fCur.ran /\ fCur.alpha = Alpha /\ fCur.beta = BetaDen
    /\ Len(fCur.relative) = 1
    /\ "statistical" \in fCur.stages
    /\ Sims(fCur.results) = <<MaxSim(fCands)>>

\* The relative-cutoff survivors not below mean + beta * deviation.
KeptAt(survivors, beta) ==
    SelectSeq(survivors, LAMBDA x : AboveDynamicThreshold(x, survivors, beta))

\* C24: when the caller of a search (ModernRagService.search or
\* searchFinancialDocuments) supplies a strictness beta, the survivors of the
\* statistical stage are exactly the relative-cutoff survivors whose similarity
\* is not below mean + beta * sample deviation, beta being the caller's value.
C24_CallerBeta ==
    (Returned /\ sr.opt.similarityThreshold # NoBeta /\ Len(sr.fetched) > 0) =>
        /\ "statistical" \in sr.stages
        /\ sr.filtered = KeptAt(RelativeSurvivors(sr.fetched), sr.opt.similarityThreshold)

\* The span type the detector is claimed to give a line of each kind.
ClaimedSpanType(kind) ==
    CASE kind = "speaker" -> "transcript"
      [] kind = "metrics" -> "financial_metrics"
      [] kind = "table" -> "table"
      [] OTHER -> "narrative"

\* C25: the structure detector puts every line that is not a speaker, a
\* financial-metrics or a table line into a span of type narrative, and every
\* span it flushes holds lines of its own type only.
C25_PlainLinesAreNarrative ==
    Detected =>
        \A s \in 1..Len(fn.out) :
            \A k \in 1..Len(fn.out[s].content) :
                fn.out[s].type = ClaimedSpanType(fn.lines[fn.out[s].content[k] + 1].kind)

\* C26: every text a processDocument call sends to the embedding interface is
\* the chunk's content joined with the tags present on the chunk, of which the
\* Section tag is present on every chunk; it is never the bare content.
C26_EmbeddingTextIsTagged ==
    \A r \in Reqs :
        \A i \in 1..Len(req[r].embedTexts) :
            /\ req[r].embedTexts[i].tags # <<>>
            /\ req[r].embedTexts[i].tags[Len(req[r].embedTexts[i].tags)] = "Section"

ObjectsIn(segments) == {i \in 1..Len(segments) : segments[i].kind = "object"}

\* C27: when the LLM response holds a JSON object that parses, the extractor
\* returns the record parsed from the first such object, whatever text,
\* braces or further objects come before or after it.
C27_FirstObjectIsParsed ==
    (Extracted /\ ObjectsIn(fn.completion.segments) # {}) =>
        /\ fn.out.source = "llm"
        /\ fn.out.data = fn.completion.segments[MinOf(ObjectsIn(fn.completion.segments))].data

\* The calls that wrote the rows the table holds for document d.
WritersOf(d) ==
    {dbChunks[i].id[1] : i \in {k \in 1..Len(dbChunks) : dbChunks[k].documentId = d}}

\* C28: when a document has been processed and is processed a second time,
\* the table holds for it the chunks of one processing only.
C28_ReprocessingReplaces ==
    (/\ req[1].result = "ok" /\ req[2].result = "ok"
     /\ req[1].doc = req[2].doc
     /\ \A i, j \in 1..Len(dbChunks) :
           (dbChunks[i].id[1] = 2 /\ dbChunks[j].id[1] = 1) => j < i) =>
        Cardinality(WritersOf(req[1].doc)) <= 1

\* C29: among the chunks a successful processDocument call returns, siblings
\* (the children of one parent, or the chunks without parent) have pairwise
\* distinct order values.
C29_SiblingOrdersDistinct ==
    \A r \in Reqs :
        req[r].result = "ok" =>
            \A i, j \in 1..Len(req[r].returned) :
                (/\ i # j
                 /\ req[r].returned[i].parentChunkId = req[r].returned[j].parentChunkId) =>
                    req[r].returned[i].chunkOrder # req[r].returned[j].chunkOrder

\* C30: every uploadAndProcess call that ends returns a ProcessingResult and
\* does not throw; success is true exactly when the job ended completed with
\* progress 100, false exactly when the job ended failed.
C30_UploadAlwaysReturns ==
    up.pc = "done" =>
        /\ up.result.kind = "returned"
        /\ up.result.success <=> (up.job.status = "completed" /\ up.job.progress = 100)
        /\ ~up.result.success <=> up.job.status = "failed"

==============================================================================
